---- MODULE Spec2Model ----
(***************************************************************************)
(* A model of did-it-hail: the mosaic run (did_it_hail/mosaic.py) and the  *)
(* ingest pipeline (did_it_hail/ingest).                                   *)
(*                                                                         *)
(* Times are minutes since the start of a day directory.  A grid is a      *)
(* function from the cells of the reference grid to a hail index or NaN.   *)
(***************************************************************************)
EXTENDS Integers, Sequences, FiniteSets, TLC

\* ------------------------------------------------------------------ bounds

\* Scene files in a day directory.
MaxScenes == 3

\* Timestamps a scene file name can carry (the timestamps of the bucketing
\* example: a shared window, a window boundary and a gap of a full window).
Times == {0, 3, 7, 10}

\* Cells of the reference grid.  The reduction and the sum work on every
\* cell alone.
Cells == {1}

\* Shapes <<rays, gates>> of the decoded scenes of a pipeline run: one ray
\* (its cell centres lie on a line), square and both oblong shapes.
Shapes == {<<1, 2>>, <<2, 2>>, <<3, 2>>, <<2, 3>>}

\* The largest classification code of a decoded scene.
MaxCode == 14

\* The radar sites of the configuration.
Sites == {"KOAX", "KUEX"}

\* Acquisition times of a scene, in hours since 2024-01-01T00:00Z.
ProdTimes == {3, 27}

\* The classification codes of the scenes of a pipeline run: one below the
\* hail range and one in it.
StageCodes == {9, 12}

\* The values of a cell of the scenes of a run over several days: hail or
\* no-data.
DaysValues == {2, 0 - 1}

\* The number of scenes of a day and the number of days of such a run.
DaysScenes == {1, 2}

DaysCount == {1, 2}

\* The processes that call Repository.store at the same time.
StoreProcs == {1, 2}

\* Acquisition times of the layers handed to Repository.store, in hours
\* since 2024-01-01T00:00Z: 03:00 of the first day, 03:00 and 06:00 of the
\* second.
StoreTimes == {3, 27, 30}

\* The values that tell layers of one name apart.
StoreValues == {1, 2}

\* The shapes <<rows, columns>> of the interpolated arrays the corrective
\* transform is applied to, square and not, and the values of their cells.
TransformShapes == ((1 .. 3) \X (1 .. 3)) \cup {<<2, 4>>, <<4, 2>>, <<1, 4>>, <<4, 1>>}

TransformValues == {0, 1}

\* Start azimuths and widths of the sector of a ray, in degrees: sectors in
\* every quadrant and sectors that reach or cross due north.
AzStarts == {0, 89, 179, 269, 358, 359}

AzWidths == {1, 2}

\* ------------------------------------------------------- program constants

\* timedelta(minutes=5), the window width main() passes to slice_by_time.
TimeDelta == 5

\* The no-data value (NaN) of a float grid.
NaN == 0 - 1

\* The largest hail index: HAIL_CLASSIFICATION_RANGE[1] - 9.
MaxHail == 3

HailValues == 0 .. MaxHail

\* The grids a stored scene can hold: a hail index or NaN in every cell.
Grids == [Cells -> HailValues \cup {NaN}]

\* A scene file of a day directory: the timestamp its name ends with and
\* the grid of the dataset it holds.  xr.open_dataset(file) is modelled as
\* the file itself.
Files == [time : Times, grid : Grids]

VARIABLES
    dirs,            \* day_subdirs: the day directories, each the files glob yields, in order
    pc,              \* main()'s position
    day,             \* index of day_subdir in day_subdirs
    scans,           \* scans: dict timestamp -> dataset
    slices,          \* slices: dict (start, end) -> list of datasets, in insertion order
    slices_reduced,  \* slices_reduced: dict (start, end) -> dataset, in insertion order
    sum_,            \* sum_: the mosaic of the day, <<>> while unset
    out_dirs,        \* the per-day output directories that exist
    nc_files,        \* NC_OUTPUT_DIR/<day>/mosaic.nc, by day
    tif_files,       \* TIFF_OUTPUT_DIR/<day>/mosaic.tif, by day
    enabled,         \* ENABLED_SITES, the list of the configuration
    remote,          \* the latest product file of every enabled site on the server
    ipc,             \* pipeline()'s position, and that of the code iterating its generators
    gen,             \* the index in ENABLED_SITES of the next site the generators pull
    decoded,         \* the array a stage consumed, until the next stage runs
    da,              \* the array the generators hand from stage to stage
    reference,       \* the reference area file, <<>> while it does not exist
    repo,            \* the files of the repository, by path
    store_calls      \* the names of the arrays Repository.store was called with

mosaicVars == <<dirs, pc, day, scans, slices, slices_reduced, sum_, out_dirs, nc_files, tif_files>>

ingestVars == <<enabled, remote, ipc, gen, decoded, da, reference, repo, store_calls>>

VARIABLES
    calls,           \* the Repository.store calls in progress, by calling process
    date_dirs,       \* the date directories of the repository that exist
    returned         \* the store calls that have returned, in the order of their return

storeVars == <<calls, date_dirs, returned>>

vars == <<mosaicVars, ingestVars, storeVars>>

\* --------------------------------------------------------------- helpers

RECURSIVE SeqSum(_)
SeqSum(s) == IF s = <<>> THEN 0 ELSE Head(s) + SeqSum(Tail(s))

SetMin(S) == CHOOSE x \in S : \A y \in S : x <= y

SetMax(S) == CHOOSE x \in S : \A y \in S : x >= y

\* The sequences of files of length n whose timestamps do not decrease (the
\* order among files of equal timestamp is the only order that matters).
RECURSIVE FileSeqs(_, _)
FileSeqs(n, lo) ==
    IF n = 0 THEN {<<>>}
    ELSE UNION {{<<f>> \o rest : rest \in FileSeqs(n - 1, f.time)} :
                    f \in {g \in Files : g.time >= lo}}

\* The contents a day directory can have.  Repository.store creates a day
\* directory when it writes a scene into it, so none is empty.
DayDirs == UNION {FileSeqs(n, 0) : n \in 1 .. MaxScenes}

\* The times of a set, in increasing order.
RECURSIVE Ascending(_)
Ascending(S) ==
    IF S = {} THEN <<>> ELSE <<SetMin(S)>> \o Ascending(S \ {SetMin(S)})

EmptyDict == [t \in {} |-> NaN]

\* --------------------------------------------------------- mosaic.py

\* get_radar_data: the dict comprehension over day_subdir.glob("*.nc"), keyed
\* by the timestamp of the file name; a later file of an equal timestamp
\* replaces the earlier one.
get_radar_data(dir) ==
    [t \in {dir[i].time : i \in DOMAIN dir} |->
        dir[SetMax({i \in DOMAIN dir : dir[i].time = t})]]

\* The list comprehension of slice_by_time: the datasets whose time lies in
\* [start, end_time), in the order of the dict.
Matches(data_by_time, start, end_time) ==
    LET ts == Ascending({t \in DOMAIN data_by_time : start <= t /\ t < end_time})
    IN  [i \in DOMAIN ts |-> data_by_time[ts[i]]]

\* The loop of slice_by_time: `while start < end`.
RECURSIVE SliceLoop(_, _, _, _, _)
SliceLoop(data_by_time, start, end, time_delta, sliced_data) ==
    IF start < end
    THEN LET end_time == start + time_delta
         IN  SliceLoop(data_by_time, end_time, end, time_delta,
                       Append(sliced_data,
                              [start |-> start, end |-> end_time,
                               data |-> Matches(data_by_time, start, end_time)]))
    ELSE sliced_data

\* slice_by_time, for a dict that is not empty.
slice_by_time(data_by_time, time_delta) ==
    SliceLoop(data_by_time, SetMin(DOMAIN data_by_time), SetMax(DOMAIN data_by_time),
              time_delta, <<>>)

\* A reduction that adds the layers of a bucket instead of taking their maximum.
MaxZ_Sum(data) ==
    [c \in Cells |->
        LET present == {i \in DOMAIN data : data[i].grid[c] # NaN}
        IN  IF present = {} THEN NaN
            ELSE SeqSum([i \in DOMAIN data |->
                            IF data[i].grid[c] = NaN THEN 0 ELSE data[i].grid[c]])]

\* xr.concat(data, dim="z").max("z"): the maximum over z of the values that
\* are not NaN, and NaN where every value is.
MaxZ(data) ==
    [c \in Cells |->
        LET present == {data[i].grid[c] : i \in DOMAIN data} \ {NaN}
        IN  IF present = {} THEN NaN ELSE SetMax(present)]

\* A mosaic that takes the maximum over the buckets instead of their sum.
SumZ_Max(reduced) ==
    [c \in Cells |->
        SetMax({0} \cup {reduced[i].grid[c] : i \in DOMAIN reduced})]

\* xr.concat(list(slices_reduced.values()), dim="z").sum("z"): the sum over
\* z, a NaN counting as 0.
SumZ(reduced) ==
    [c \in Cells |->
        SeqSum([i \in DOMAIN reduced |->
                    IF reduced[i].grid[c] = NaN THEN 0 ELSE reduced[i].grid[c]])]

\* The buckets whose raw layers main() still references through slices.
HeldBuckets == {i \in DOMAIN slices : slices[i].data # <<>>}

\* No process is calling Repository.store on its own.
StoreOff ==
    /\ calls = <<>>
    /\ date_dirs = {}
    /\ returned = <<>>

\* The ingest pipeline is not running.
IngestOff ==
    /\ enabled = <<>>
    /\ remote = EmptyDict
    /\ ipc = "off"
    /\ gen = 0
    /\ decoded = <<>>
    /\ da = <<>>
    /\ reference = <<>>
    /\ repo = EmptyDict
    /\ store_calls = <<>>

Init ==
    /\ dirs \in {<<>>} \cup {<<d>> : d \in DayDirs}
    /\ pc = "start"
    /\ day = 0
    /\ scans = EmptyDict
    /\ slices = <<>>
    /\ slices_reduced = <<>>
    /\ sum_ = <<>>
    /\ out_dirs = {}
    /\ nc_files = EmptyDict
    /\ tif_files = EmptyDict
    /\ IngestOff
    /\ StoreOff

\* main(), up to the loop over day_subdirs.
Start ==
    /\ pc = "start"
    /\ IF dirs = <<>>
       THEN pc' = "done" /\ day' = day
       ELSE pc' = "load" /\ day' = 1
    /\ UNCHANGED <<dirs, scans, slices, slices_reduced, sum_, out_dirs, nc_files, tif_files>>
    /\ UNCHANGED <<ingestVars, storeVars>>

\* scans = get_radar_data(day_subdir)
GetRadarData ==
    /\ pc = "load"
    /\ scans' = get_radar_data(dirs[day])
    /\ pc' = "slice"
    /\ UNCHANGED <<dirs, day, slices, slices_reduced, sum_, out_dirs, nc_files, tif_files>>
    /\ UNCHANGED <<ingestVars, storeVars>>

\* slices = slice_by_time(scans, timedelta(minutes=5)); del scans.
\* min() of an empty dict raises ValueError, which ends main().
SliceByTime ==
    /\ pc = "slice"
    /\ IF DOMAIN scans = {}
       THEN pc' = "crashed" /\ UNCHANGED <<scans, slices>>
       ELSE /\ slices' = slice_by_time(scans, TimeDelta)
            /\ scans' = EmptyDict
            /\ pc' = "reduce"
    /\ UNCHANGED <<dirs, day, slices_reduced, sum_, out_dirs, nc_files, tif_files>>
    /\ UNCHANGED <<ingestVars, storeVars>>

\* One iteration of the dict comprehension over slices.items(); xr.concat of
\* an empty list raises ValueError, which ends main().
ReduceSlice ==
    /\ pc = "reduce"
    /\ Len(slices_reduced) < Len(slices)
    /\ LET s == slices[Len(slices_reduced) + 1]
       IN  IF s.data = <<>>
           THEN pc' = "crashed" /\ UNCHANGED slices_reduced
           ELSE /\ slices_reduced' =
                       Append(slices_reduced,
                              [start |-> s.start, end |-> s.end, grid |-> MaxZ(s.data)])
                /\ pc' = pc
    /\ UNCHANGED <<dirs, day, scans, slices, sum_, out_dirs, nc_files, tif_files>>
    /\ UNCHANGED <<ingestVars, storeVars>>

\* del slices, once the comprehension has ended.
DelSlices ==
    /\ pc = "reduce"
    /\ Len(slices_reduced) = Len(slices)
    /\ slices' = <<>>
    /\ pc' = "sum"
    /\ UNCHANGED <<dirs, day, scans, slices_reduced, sum_, out_dirs, nc_files, tif_files>>
    /\ UNCHANGED <<ingestVars, storeVars>>

\* sum_ = xr.concat(list(slices_reduced.values()), dim="z").sum("z"); xr.concat
\* of an empty list raises ValueError, which ends main().
SumSlices ==
    /\ pc = "sum"
    /\ IF slices_reduced = <<>>
       THEN pc' = "crashed" /\ UNCHANGED sum_
       ELSE sum_' = <<SumZ(slices_reduced)>> /\ pc' = "mkdir"
    /\ UNCHANGED <<dirs, day, scans, slices, slices_reduced, out_dirs, nc_files, tif_files>>
    /\ UNCHANGED <<ingestVars, storeVars>>

\* create_output_dir(day_subdir.name)
CreateOutputDir ==
    /\ pc = "mkdir"
    /\ out_dirs' = out_dirs \cup {day}
    /\ pc' = "write_nc"
    /\ UNCHANGED <<dirs, day, scans, slices, slices_reduced, sum_, nc_files, tif_files>>
    /\ UNCHANGED <<ingestVars, storeVars>>

\* A write of the mosaic into the mosaic.nc of every day.
WriteNcEveryDay ==
    /\ pc = "write_nc"
    /\ nc_files' = [e \in DOMAIN dirs |-> sum_[1]]
    /\ pc' = "write_tif"
    /\ UNCHANGED <<dirs, day, scans, slices, slices_reduced, sum_, out_dirs, tif_files>>
    /\ UNCHANGED <<ingestVars, storeVars>>

\* sum_.to_netcdf(nc_output_dir / "mosaic.nc")
WriteNc ==
    /\ pc = "write_nc"
    /\ nc_files' = (day :> sum_[1]) @@ nc_files
    /\ pc' = "write_tif"
    /\ UNCHANGED <<dirs, day, scans, slices, slices_reduced, sum_, out_dirs, tif_files>>
    /\ UNCHANGED <<ingestVars, storeVars>>

\* sum_.rio.to_raster(tiff_output_dir / "mosaic.tif"), and the next turn of
\* the loop: slices_reduced and sum_ are not read again before they are
\* assigned anew.
WriteTif ==
    /\ pc = "write_tif"
    /\ tif_files' = (day :> sum_[1]) @@ tif_files
    /\ IF day < Len(dirs)
       THEN /\ day' = day + 1
            /\ pc' = "load"
            /\ slices_reduced' = <<>>
            /\ sum_' = <<>>
       ELSE /\ pc' = "done"
            /\ UNCHANGED <<day, slices_reduced, sum_>>
    /\ UNCHANGED <<dirs, scans, slices, out_dirs, nc_files>>
    /\ UNCHANGED <<ingestVars, storeVars>>

Next ==
    \/ Start
    \/ GetRadarData
    \/ SliceByTime
    \/ ReduceSlice
    \/ DelSlices
    \/ SumSlices
    \/ CreateOutputDir
    \/ WriteNc
    \/ WriteTif

Spec == Init /\ [][Next]_vars

\* ------------------------------------------- mosaic.py, runs over days

\* The day directories of a run over several days.
DayChoices ==
    {d \in DayDirs : Len(d) \in DaysScenes
                     /\ \A i \in DOMAIN d : \A c \in Cells : d[i].grid[c] \in DaysValues}

\* One or two day directories, no mosaic written yet.
InitDays ==
    /\ dirs \in UNION {[1 .. n -> DayChoices] : n \in DaysCount}
    /\ pc = "start"
    /\ day = 0
    /\ scans = EmptyDict
    /\ slices = <<>>
    /\ slices_reduced = <<>>
    /\ sum_ = <<>>
    /\ out_dirs = {}
    /\ nc_files = EmptyDict
    /\ tif_files = EmptyDict
    /\ IngestOff
    /\ StoreOff

\* The process running main() is ended from outside while it works on a
\* day: its local variables are gone, the files it wrote stay.
Abandon ==
    /\ pc \in {"load", "slice", "reduce", "sum", "mkdir", "write_nc", "write_tif"}
    /\ pc' = "abandoned"
    /\ scans' = EmptyDict
    /\ slices' = <<>>
    /\ slices_reduced' = <<>>
    /\ sum_' = <<>>
    /\ UNCHANGED <<dirs, day, out_dirs, nc_files, tif_files>>
    /\ UNCHANGED <<ingestVars, storeVars>>

\* The script is run again on the same day directories: main() starts anew,
\* the output files of earlier runs exist.
Rerun ==
    /\ pc \in {"done", "crashed", "abandoned"}
    /\ pc' = "start"
    /\ day' = 0
    /\ scans' = EmptyDict
    /\ slices' = <<>>
    /\ slices_reduced' = <<>>
    /\ sum_' = <<>>
    /\ UNCHANGED <<dirs, out_dirs, nc_files, tif_files>>
    /\ UNCHANGED <<ingestVars, storeVars>>

NextDays ==
    \/ Start
    \/ GetRadarData
    \/ SliceByTime
    \/ ReduceSlice
    \/ DelSlices
    \/ SumSlices
    \/ CreateOutputDir
    \/ WriteNc
    \/ WriteTif
    \/ Abandon
    \/ Rerun

SpecDays == InitDays /\ [][NextDays]_vars

\* ------------------------------------------------------ numbers and arrays

\* A coordinate is a fraction <<numerator, denominator>> with a positive
\* denominator, in lowest terms.
RECURSIVE Gcd(_, _)
Gcd(a, b) == IF b = 0 THEN a ELSE Gcd(b, a % b)

Abs(n) == IF n < 0 THEN 0 - n ELSE n

Frac(n, d) ==
    LET g == Gcd(Abs(n), d)
    IN  IF n = 0 THEN <<0, 1>> ELSE <<n \div g, d \div g>>

FAdd(a, b) == Frac(a[1] * b[2] + b[1] * a[2], a[2] * b[2])

FSub(a, b) == Frac(a[1] * b[2] - b[1] * a[2], a[2] * b[2])

FMul(a, b) == Frac(a[1] * b[1], a[2] * b[2])

FLess(a, b) == a[1] * b[2] < b[1] * a[2]

FLeq(a, b) == a[1] * b[2] <= b[1] * a[2]

FAbs(a) == <<Abs(a[1]), a[2]>>

FMin(S) == CHOOSE a \in S : \A b \in S : FLeq(a, b)

FMax(S) == CHOOSE a \in S : \A b \in S : FLeq(b, a)

\* np.linspace(lo, hi, n): n evenly spaced samples from lo to hi, both ends
\* included (lo alone for n = 1).
Linspace(lo, hi, n) ==
    [i \in 1 .. n |->
        IF n = 1 THEN lo
        ELSE FAdd(lo, FMul(FSub(hi, lo), Frac(i - 1, n - 1)))]

\* The index set of a 2-D array of the given shape, row first.
Idx(rows, cols) == (1 .. rows) \X (1 .. cols)

\* No flip: the array as it is.
no_flip(m) == m

\* np.flipud of a 2-D array [rows, cols, v]: the rows in reverse order.
flipud(m) ==
    [rows |-> m.rows, cols |-> m.cols,
     v |-> [ij \in Idx(m.rows, m.cols) |-> m.v[<<m.rows + 1 - ij[1], ij[2]>>]]]

\* np.rot90(m, 1): one turn by 90 degrees counterclockwise.
rot90_once(m) ==
    [rows |-> m.cols, cols |-> m.rows,
     v |-> [ij \in Idx(m.cols, m.rows) |-> m.v[<<ij[2], m.cols + 1 - ij[1]>>]]]

\* np.rot90(m, k)
RECURSIVE rot90(_, _)
rot90(m, k) == IF k = 0 THEN m ELSE rot90(rot90_once(m), k - 1)

\* ------------------------------------------------------ ingest/download.py

\* datetime.isoformat() of a time, and datetime.fromisoformat() of the text.
isoformat(t) == [date |-> t \div 24, hour |-> t % 24]

fromisoformat(iso) == iso.date * 24 + iso.hour

\* _get_azimuth_midpoints: (start_azimuths + end_azimuths) / 2
_get_azimuth_midpoints(start_azimuths, end_azimuths) ==
    [i \in DOMAIN start_azimuths |-> Frac(start_azimuths[i] + end_azimuths[i], 2)]

\* The northward and eastward parts of a step along an azimuth that is a
\* multiple of 45 degrees (metpy's azimuth_range_to_lat_lon, on a plane).
Northing(az) ==
    LET a == (az[1] \div az[2]) % 360
    IN  IF a \in {315, 0, 45} THEN 1 ELSE IF a \in {135, 180, 225} THEN 0 - 1 ELSE 0

Easting(az) ==
    LET a == (az[1] \div az[2]) % 360
    IN  IF a \in {45, 90, 135} THEN 1 ELSE IF a \in {225, 270, 315} THEN 0 - 1 ELSE 0

\* _convert_l3_product_to_da: the array of a decoded Level 3 file, with the
\* latitude y and the longitude x of every (azimuth, range) cell.
_convert_l3_product_to_da(l3f) ==
    LET range_steps == l3f.gates
        ranges == Linspace(<<0, 1>>, <<l3f.max_range, 1>>, range_steps)
        azimuths == _get_azimuth_midpoints(l3f.start_az, l3f.end_az)
        product_time == isoformat(l3f.prod_time)
    IN  [kind |-> "polar",
         name |-> <<l3f.siteID, l3f.product_name, product_time>>,
         attrs |-> [site_id |-> l3f.siteID, product_name |-> l3f.product_name,
                    product_time |-> product_time],
         rows |-> l3f.rays,
         cols |-> range_steps,
         v |-> l3f.data,
         y |-> [ij \in Idx(l3f.rays, range_steps) |->
                    FAdd(<<l3f.lat, 1>>,
                         FMul(ranges[ij[2]], <<Northing(azimuths[ij[1]]), 1>>))],
         x |-> [ij \in Idx(l3f.rays, range_steps) |->
                    FAdd(<<l3f.lon, 1>>,
                         FMul(ranges[ij[2]], <<Easting(azimuths[ij[1]]), 1>>))]]

\* ----------------------------------------------------- ingest/transform.py

\* HAIL_CLASSIFICATION_RANGE
HailLow == 10

HailHigh == 12

\* da.where(cond): the value where cond holds, NaN elsewhere; a comparison
\* with NaN does not hold.
Where(value, cond) == IF cond THEN value ELSE NaN

AtLeast(value, bound) == value # NaN /\ value >= bound

AtMost(value, bound) == value # NaN /\ value <= bound

\* hail - 9 and hail.fillna(0), of one cell.
Minus9(value) == IF value = NaN THEN NaN ELSE value - 9

FillNa0(value) == IF value = NaN THEN 0 ELSE value

\* The hail index without its last step: no-data cells are left as they are.
HailIndexNoFill(code) ==
    Minus9(Where(Where(code, AtLeast(code, HailLow)), AtMost(code, HailHigh)))

\* The hail index of one cell: da.where(da >= 10).where(da <= 12) - 9, NaN
\* filled with 0.
HailIndexOf(code) ==
    FillNa0(Minus9(Where(Where(code, AtLeast(code, HailLow)), AtMost(code, HailHigh))))

\* get_hail_index
get_hail_index(d) ==
    [d EXCEPT !.v = [ij \in DOMAIN d.v |-> HailIndexOf(d.v[ij])],
              !.name = <<d.attrs.site_id, "hail_index", d.attrs.product_time>>]

\* The value of a cell no value could be computed for, in an interpolated
\* or reprojected grid.
GridNaN == <<>>

\* The turn from the line p -> q to the point t, points being <<y, x>>:
\* positive, zero or negative.
Turn(p, q, t) ==
    FSub(FMul(FSub(q[1], p[1]), FSub(t[2], p[2])),
         FMul(FSub(q[2], p[2]), FSub(t[1], p[1])))[1]

\* The (y, x) points of the cells of a polar array.
PointsOf(d) == {<<d.y[ij], d.x[ij]>> : ij \in DOMAIN d.v}

\* The points are all on one line (or are one point): no triangulation.
Collinear(P) == \A p \in P, q \in P, t \in P : Turn(p, q, t) = 0

\* The edges of the convex hull of P, all of P to their left.
HullEdges(P) ==
    {e \in P \X P : e[1] # e[2] /\ \A t \in P : Turn(e[1], e[2], t) >= 0}

\* scipy's griddata(points, values, (grid_y, grid_x), method="linear"): for
\* every place of the target grids, the value interpolated at its (y, x)
\* point, which the model keeps as the point itself, and NaN outside the
\* convex hull of the points.
griddata(d, grid_y, grid_x) ==
    LET edges == HullEdges(PointsOf(d))
    IN  [rows |-> grid_y.rows, cols |-> grid_y.cols,
         v |-> [ij \in Idx(grid_y.rows, grid_y.cols) |->
                   LET t == <<grid_y.v[ij], grid_x.v[ij]>>
                   IN  IF \A e \in edges : Turn(e[1], e[2], t) >= 0
                       THEN <<"at", t[1], t[2]>>
                       ELSE GridNaN]]

\* np.meshgrid(x_values, y_values): two arrays of len(y) rows and len(x) columns.
meshgrid(x_values, y_values) ==
    [X |-> [rows |-> Len(y_values), cols |-> Len(x_values),
            v |-> [ij \in Idx(Len(y_values), Len(x_values)) |-> x_values[ij[2]]]],
     Y |-> [rows |-> Len(y_values), cols |-> Len(x_values),
            v |-> [ij \in Idx(Len(y_values), Len(x_values)) |-> y_values[ij[1]]]]]

\* _get_regular_grid_from_data: len() of a 2-D coordinate array is its
\* number of rows, for y_source and for x_source.
_get_regular_grid_from_data(d, scale_factor) ==
    LET y_source == {d.y[ij] : ij \in DOMAIN d.y}
        x_source == {d.x[ij] : ij \in DOMAIN d.x}
        y_size == d.rows * scale_factor
        x_size == d.rows * scale_factor
        y_values == Linspace(FMin(y_source), FMax(y_source), y_size)
        x_values == Linspace(FMin(x_source), FMax(x_source), x_size)
        mesh == meshgrid(x_values, y_values)
    IN  [y_values |-> y_values, x_values |-> x_values,
         grid_y_values |-> mesh.Y, grid_x_values |-> mesh.X]

\* The default of resample_to_regular_grid's scale_factor.
ScaleFactor == 2

\* griddata raises for points that span no triangle.
CanResample(d) == ~ Collinear(PointsOf(d))

\* resample_to_regular_grid, where griddata does not raise.
resample_to_regular_grid(d, scale_factor) ==
    LET new_grid == _get_regular_grid_from_data(d, scale_factor)
        interpolated == griddata(d, new_grid.grid_y_values, new_grid.grid_x_values)
        data_new == rot90(flipud(interpolated), 3)
    IN  [kind |-> "grid",
         dims |-> <<"x", "y">>,
         name |-> d.name,
         attrs |-> d.attrs,
         rows |-> data_new.rows,
         cols |-> data_new.cols,
         v |-> data_new.v,
         y |-> new_grid.y_values,
         x |-> new_grid.x_values,
         crs |-> "epsg:4326"]

\* The value of a grid at the x index ix and the y index iy.
CellOf(d, ix, iy) == IF d.dims[1] = "x" THEN d.v[<<ix, iy>>] ELSE d.v[<<iy, ix>>]

\* generate_reference_area_nc: the empty grid of the reference area, in web
\* mercator, north up, at a fixed resolution.
ReferenceArea ==
    [x |-> <<0, 2, 4, 6, 8, 10, 12>>,
     y |-> <<12, 10, 8, 6, 4, 2, 0>>,
     crs |-> "EPSG:3857"]

\* The degrees of a web mercator coordinate (taken as linear in both axes).
ToDegrees(m) == Frac(m, 2)

\* The index of the coordinate nearest to target, 0 if target is more than
\* half a pixel away from all; coords are evenly spaced.
NearestIndex(coords, target) ==
    LET half == IF Len(coords) = 1 THEN <<1, 2>>
                ELSE FMul(FAbs(FSub(coords[2], coords[1])), <<1, 2>>)
        near == {i \in DOMAIN coords : FLeq(FAbs(FSub(coords[i], target)), half)}
    IN  IF near = {} THEN 0 ELSE SetMin(near)

\* A reprojection that returns its input: the grid stays on its own cells.
resample_unchanged(d, ref) == d

\* resample_to_reference_area: da.rio.reproject_match(reference), the array
\* resampled (nearest) onto the cells of the reference, whose coordinates it
\* takes; NaN where the array has no cell.
resample_to_reference_area(d, ref) ==
    [kind |-> "grid",
     dims |-> <<"y", "x">>,
     name |-> d.name,
     attrs |-> d.attrs,
     rows |-> Len(ref.y),
     cols |-> Len(ref.x),
     v |-> [ij \in Idx(Len(ref.y), Len(ref.x)) |->
               LET sx == NearestIndex(d.x, ToDegrees(ref.x[ij[2]]))
                   sy == NearestIndex(d.y, ToDegrees(ref.y[ij[1]]))
               IN  IF sx = 0 \/ sy = 0 THEN GridNaN ELSE CellOf(d, sx, sy)],
     y |-> ref.y,
     x |-> ref.x,
     crs |-> ref.crs]

\* The elements of a sequence at the given indices, in order.
Pick(seq, indices) ==
    LET order == Ascending(indices)
    IN  [i \in DOMAIN order |-> seq[order[i]]]

\* da.dropna(dim, how="all"): a new array without the labels of dim at which
\* every value is NaN.
dropna(d, dim) ==
    LET keep_x == IF dim # "x" THEN DOMAIN d.x
                  ELSE {i \in DOMAIN d.x : \E j \in DOMAIN d.y : CellOf(d, i, j) # GridNaN}
        keep_y == IF dim # "y" THEN DOMAIN d.y
                  ELSE {j \in DOMAIN d.y : \E i \in DOMAIN d.x : CellOf(d, i, j) # GridNaN}
        kx == Ascending(keep_x)
        ky == Ascending(keep_y)
        rows == IF d.dims[1] = "x" THEN Len(kx) ELSE Len(ky)
        cols == IF d.dims[1] = "x" THEN Len(ky) ELSE Len(kx)
    IN  [d EXCEPT !.x = Pick(d.x, keep_x),
                  !.y = Pick(d.y, keep_y),
                  !.rows = rows,
                  !.cols = cols,
                  !.v = [ij \in Idx(rows, cols) |->
                            IF d.dims[1] = "x" THEN CellOf(d, kx[ij[1]], ky[ij[2]])
                            ELSE CellOf(d, kx[ij[2]], ky[ij[1]])]]

\* minimize_data: it calls dropna twice, drops the arrays dropna returns and
\* returns the array it was given.
minimize_data(d) ==
    LET without_x == dropna(d, "x")
        without_y == dropna(d, "y")
    IN  d

\* --------------------------------------------------------- ingest/store.py

\* strftime("%Y-%m-%d") of a time: its calendar date.
strftime_date(t) == t \div 24

\* The date of the time itself, without the shift.
get_utc_iso_date(iso_time) == strftime_date(fromisoformat(iso_time))

\* Repository.__get_cdt_iso_date: the date of the time five hours earlier.
get_cdt_iso_date(iso_time) ==
    LET utc_time == fromisoformat(iso_time)
        cdt == utc_time - 5
    IN  strftime_date(cdt)

\* A path that numbers the files by the calls that returned before.
nc_file_numbered(d) ==
    <<"hail_index", get_cdt_iso_date(d.attrs.product_time), d.name,
      Len(returned)>>

\* The path Repository.store writes to: self.path / date_str / f"{da.name}.nc",
\* self.path being root / "hail_index".
nc_file(d) == <<"hail_index", get_cdt_iso_date(d.attrs.product_time), d.name>>

\* Repository.store and save_nc: the files of the repository after the store.
store(files, d) == (nc_file(d) :> d) @@ files

\* ------------------------------------------------------ ingest/pipeline.py

\* The mosaic run is not running.
MosaicOff ==
    /\ dirs = <<>>
    /\ pc = "off"
    /\ day = 0
    /\ scans = EmptyDict
    /\ slices = <<>>
    /\ slices_reduced = <<>>
    /\ sum_ = <<>>
    /\ out_dirs = {}
    /\ nc_files = EmptyDict
    /\ tif_files = EmptyDict

SiteLat(site) == IF site = "KOAX" THEN 4 ELSE 3

SiteLon(site) == IF site = "KOAX" THEN 4 ELSE 2

\* The Level 3 files of a site with the given shape, times and data arrays:
\* ray a spans the azimuths from 90 (a - 1) to 90 a degrees.
L3Files(site, rays, gates, times, arrays) ==
    {[ok |-> TRUE, siteID |-> site, product_name |-> "HHC", prod_time |-> t,
      lat |-> SiteLat(site), lon |-> SiteLon(site), max_range |-> 2,
      rays |-> rays, gates |-> gates, data |-> data,
      start_az |-> [a \in 1 .. rays |-> ((a - 1) * 90) % 360],
      end_az |-> [a \in 1 .. rays |-> (((a - 1) * 90) % 360) + 90]] :
        t \in times, data \in arrays}

\* A file Level3File cannot read.
CorruptFile == [ok |-> FALSE]

\* The latest product a site can have on the server in a pipeline run: a
\* scene of one of the shapes with one code in all its cells, or a corrupt file.
StageFiles(site) ==
    {CorruptFile} \cup
    UNION {L3Files(site, sh[1], sh[2], ProdTimes,
                   {[ij \in Idx(sh[1], sh[2]) |-> c] : c \in StageCodes}) :
              sh \in Shapes}

\* The classification codes of a decoded scene, NaN included.
AllCodes == (0 .. MaxCode) \cup {NaN}

\* The scenes the hail index is checked on: one ray of one or two gates, with
\* any codes.
HailFiles(site) ==
    UNION {L3Files(site, 1, g, {3}, [Idx(1, g) -> AllCodes]) : g \in {1, 2}}

\* ENABLED_SITES: a list of sites without repetition.
EnabledLists ==
    {<<>>} \cup {<<s>> : s \in Sites}
           \cup {l \in Sites \X Sites : l[1] # l[2]}

\* The server states for a list of sites, one file per site.
RECURSIVE Remotes(_)
Remotes(sites) ==
    IF sites = <<>> THEN {EmptyDict}
    ELSE {(Head(sites) :> f) @@ rest :
              f \in StageFiles(Head(sites)), rest \in Remotes(Tail(sites))}

InitIngest ==
    /\ MosaicOff
    /\ enabled \in EnabledLists
    /\ remote \in Remotes(enabled)
    /\ ipc = "start"
    /\ gen = 0
    /\ decoded = <<>>
    /\ da = <<>>
    /\ reference \in {<<>>, <<ReferenceArea>>}
    /\ repo = EmptyDict
    /\ store_calls = <<>>
    /\ StoreOff

InitHail ==
    /\ MosaicOff
    /\ enabled = <<"KOAX">>
    /\ remote \in {("KOAX" :> f) : f \in HailFiles("KOAX")}
    /\ ipc = "start"
    /\ gen = 0
    /\ decoded = <<>>
    /\ da = <<>>
    /\ reference = <<ReferenceArea>>
    /\ repo = EmptyDict
    /\ store_calls = <<>>
    /\ StoreOff

\* pipeline(), up to get_reference_area(), which writes the reference area
\* file if it does not exist.
PipelineSetup ==
    /\ ipc = "start"
    /\ reference' = <<ReferenceArea>>
    /\ ipc' = "setup"
    /\ UNCHANGED <<enabled, remote, gen, decoded, da, repo, store_calls>>
    /\ UNCHANGED <<mosaicVars, storeVars>>

\* The six generator expressions of pipeline(): data, ..., paths.  Creating a
\* generator runs none of its body.
PipelineBuild ==
    /\ ipc = "setup"
    /\ gen' = 1
    /\ ipc' = "built"
    /\ UNCHANGED <<enabled, remote, decoded, da, reference, repo, store_calls>>
    /\ UNCHANGED <<mosaicVars, storeVars>>

\* logger.info("Pipeline completed", files=paths), which does not iterate
\* paths, and the return of pipeline().
PipelineLog ==
    /\ ipc = "built"
    /\ ipc' = "done"
    /\ UNCHANGED <<enabled, remote, gen, decoded, da, reference, repo, store_calls>>
    /\ UNCHANGED <<mosaicVars, storeVars>>

\* next(paths), down to the innermost generator:
\* downloader.get_latest_product_by_site(site).  Level3File raises for a file
\* it cannot read, and no generator catches an exception.
Download ==
    /\ ipc \in {"built", "next"}
    /\ gen <= Len(enabled)
    /\ LET l3f == remote[enabled[gen]]
       IN  IF l3f.ok
           THEN da' = _convert_l3_product_to_da(l3f) /\ ipc' = "downloaded"
           ELSE da' = da /\ ipc' = "crashed"
    /\ UNCHANGED <<enabled, remote, gen, decoded, reference, repo, store_calls>>
    /\ UNCHANGED <<mosaicVars, storeVars>>

\* get_hail_index(da)
GetHailIndex ==
    /\ ipc = "downloaded"
    /\ decoded' = da
    /\ da' = get_hail_index(da)
    /\ ipc' = "hail"
    /\ UNCHANGED <<enabled, remote, gen, reference, repo, store_calls>>
    /\ UNCHANGED <<mosaicVars, storeVars>>

\* resample_to_regular_grid(da)
ResampleToRegularGrid ==
    /\ ipc = "hail"
    /\ decoded' = <<>>
    /\ IF CanResample(da)
       THEN da' = resample_to_regular_grid(da, ScaleFactor) /\ ipc' = "regular"
       ELSE da' = da /\ ipc' = "crashed"
    /\ UNCHANGED <<enabled, remote, gen, reference, repo, store_calls>>
    /\ UNCHANGED <<mosaicVars, storeVars>>

\* resample_to_reference_area(da, referendce_area)
ResampleToReferenceArea ==
    /\ ipc = "regular"
    /\ da' = resample_to_reference_area(da, reference[1])
    /\ ipc' = "reference"
    /\ UNCHANGED <<enabled, remote, gen, decoded, reference, repo, store_calls>>
    /\ UNCHANGED <<mosaicVars, storeVars>>

\* minimize_data(da)
MinimizeData ==
    /\ ipc = "reference"
    /\ da' = minimize_data(da)
    /\ ipc' = "minimized"
    /\ UNCHANGED <<enabled, remote, gen, decoded, reference, repo, store_calls>>
    /\ UNCHANGED <<mosaicVars, storeVars>>

\* repo.store(da), and the path handed to the code iterating paths.
Store ==
    /\ ipc = "minimized"
    /\ repo' = store(repo, da)
    /\ store_calls' = Append(store_calls, da.name)
    /\ da' = <<>>
    /\ gen' = gen + 1
    /\ ipc' = "next"
    /\ UNCHANGED <<enabled, remote, decoded, reference>>
    /\ UNCHANGED <<mosaicVars, storeVars>>

\* StopIteration: ENABLED_SITES has no further site.
Exhausted ==
    /\ ipc \in {"built", "next"}
    /\ gen > Len(enabled)
    /\ ipc' = "exhausted"
    /\ UNCHANGED <<enabled, remote, gen, decoded, da, reference, repo, store_calls>>
    /\ UNCHANGED <<mosaicVars, storeVars>>

\* One invocation of pipeline().
NextPipeline ==
    \/ PipelineSetup
    \/ PipelineBuild
    \/ PipelineLog

SpecPipeline == InitIngest /\ [][NextPipeline]_vars

\* The generators pipeline() builds, iterated to their end.
NextStages ==
    \/ PipelineSetup
    \/ PipelineBuild
    \/ Download
    \/ GetHailIndex
    \/ ResampleToRegularGrid
    \/ ResampleToReferenceArea
    \/ MinimizeData
    \/ Store
    \/ Exhausted

SpecStages == InitIngest /\ [][NextStages]_vars

\* get_hail_index applied to the scenes of HailFiles.
NextHail ==
    \/ PipelineSetup
    \/ PipelineBuild
    \/ Download
    \/ GetHailIndex

SpecHail == InitHail /\ [][NextHail]_vars

\* ------------------------------------ ingest/store.py, concurrent callers

\* The layers get_hail_index names: site, "hail_index" and the acquisition
\* time; the data of a layer are two chunks of one value.
StoreLayers ==
    {[name |-> <<site, "hail_index", isoformat(t)>>,
      attrs |-> [site_id |-> site, product_name |-> "HHC",
                 product_time |-> isoformat(t)],
      v |-> <<val, val>>] : site \in Sites, t \in StoreTimes, val \in StoreValues}

\* A file opened for writing: created, or truncated if it exists; 0 is a
\* chunk that is not written.
EmptyFile == [name |-> <<>>, attrs |-> <<>>, v |-> <<0, 0>>]

\* Every process is about to call store with a layer; the repository is
\* empty or holds the file of an earlier call.
InitStore ==
    /\ MosaicOff
    /\ enabled = <<>>
    /\ remote = EmptyDict
    /\ ipc = "off"
    /\ gen = 0
    /\ decoded = <<>>
    /\ da = <<>>
    /\ reference = <<>>
    /\ store_calls = <<>>
    /\ returned = <<>>
    /\ \E old \in {<<>>} \cup {<<d>> : d \in StoreLayers} :
           /\ repo = IF old = <<>> THEN EmptyDict ELSE store(EmptyDict, old[1])
           /\ date_dirs = {nc_file(old[i])[2] : i \in DOMAIN old}
    /\ calls \in [StoreProcs -> {[da |-> d, at |-> "called", nc_file |-> <<>>] :
                                    d \in StoreLayers}]

\* Repository.store, up to date_dir.mkdir(parents=True, exist_ok=True).
StoreMkdir(p) ==
    /\ calls[p].at = "called"
    /\ date_dirs' = date_dirs \cup {get_cdt_iso_date(calls[p].da.attrs.product_time)}
    /\ calls' = [calls EXCEPT ![p].at = "mkdir"]
    /\ UNCHANGED <<repo, returned>>
    /\ UNCHANGED <<enabled, remote, ipc, gen, decoded, da, reference, store_calls>>
    /\ UNCHANGED mosaicVars

\* nc_file = date_dir / f"{da.name}.nc", and save_nc's to_netcdf opening the
\* file for writing.
SaveNcOpen(p) ==
    /\ calls[p].at = "mkdir"
    /\ LET file == nc_file(calls[p].da)
       IN  /\ repo' = (file :> EmptyFile) @@ repo
           /\ calls' = [calls EXCEPT ![p].at = "opened", ![p].nc_file = file]
    /\ UNCHANGED <<date_dirs, returned>>
    /\ UNCHANGED <<enabled, remote, ipc, gen, decoded, da, reference, store_calls>>
    /\ UNCHANGED mosaicVars

\* to_netcdf writing the name and the attributes of the variable into the
\* file, in place.
SaveNcDefine(p) ==
    /\ calls[p].at = "opened"
    /\ repo' = [repo EXCEPT ![calls[p].nc_file].name = calls[p].da.name,
                            ![calls[p].nc_file].attrs = calls[p].da.attrs]
    /\ calls' = [calls EXCEPT ![p].at = "defined"]
    /\ UNCHANGED <<date_dirs, returned>>
    /\ UNCHANGED <<enabled, remote, ipc, gen, decoded, da, reference, store_calls>>
    /\ UNCHANGED mosaicVars

\* to_netcdf writing the first chunk of the data into the file, in place.
SaveNcData(p) ==
    /\ calls[p].at = "defined"
    /\ repo' = [repo EXCEPT ![calls[p].nc_file].v[1] = calls[p].da.v[1]]
    /\ calls' = [calls EXCEPT ![p].at = "data"]
    /\ UNCHANGED <<date_dirs, returned>>
    /\ UNCHANGED <<enabled, remote, ipc, gen, decoded, da, reference, store_calls>>
    /\ UNCHANGED mosaicVars

\* to_netcdf writing the last chunk of the data, in place, and closing the
\* file; save_nc returns and store returns nc_file.
StoreReturn(p) ==
    /\ calls[p].at = "data"
    /\ repo' = [repo EXCEPT ![calls[p].nc_file].v[2] = calls[p].da.v[2]]
    /\ calls' = [calls EXCEPT ![p].at = "returned"]
    /\ returned' = Append(returned, [proc |-> p, da |-> calls[p].da,
                                     nc_file |-> calls[p].nc_file])
    /\ UNCHANGED date_dirs
    /\ UNCHANGED <<enabled, remote, ipc, gen, decoded, da, reference, store_calls>>
    /\ UNCHANGED mosaicVars

\* Processes calling Repository.store, one call each, in any interleaving.
NextStore ==
    \/ \E p \in StoreProcs : StoreMkdir(p)
    \/ \E p \in StoreProcs : SaveNcOpen(p)
    \/ \E p \in StoreProcs : SaveNcDefine(p)
    \/ \E p \in StoreProcs : SaveNcData(p)
    \/ \E p \in StoreProcs : StoreReturn(p)

SpecStore == InitStore /\ [][NextStore]_vars

\* ------------------------- ingest/transform.py, the corrective transform

\* The arrays griddata can return: every shape and every filling.
InterpolatedArrays ==
    UNION {{[rows |-> sh[1], cols |-> sh[2], v |-> f] :
                f \in [Idx(sh[1], sh[2]) -> TransformValues]} : sh \in TransformShapes}

\* resample_to_regular_grid after griddata: decoded holds the interpolated
\* array, its row r at the latitude r and its column c at the longitude c.
InitTransform ==
    /\ MosaicOff
    /\ StoreOff
    /\ enabled = <<>>
    /\ remote = EmptyDict
    /\ ipc = "interpolated"
    /\ gen = 0
    /\ decoded \in InterpolatedArrays
    /\ da = <<>>
    /\ reference = <<>>
    /\ repo = EmptyDict
    /\ store_calls = <<>>

\* np.flipud(data_new)
FlipUd ==
    /\ ipc = "interpolated"
    /\ da' = flipud(decoded)
    /\ ipc' = "flipped"
    /\ UNCHANGED <<enabled, remote, gen, decoded, reference, repo, store_calls>>
    /\ UNCHANGED <<mosaicVars, storeVars>>

\* np.rot90(..., 3)
Rot90 ==
    /\ ipc = "flipped"
    /\ da' = rot90(da, 3)
    /\ ipc' = "rotated"
    /\ UNCHANGED <<enabled, remote, gen, decoded, reference, repo, store_calls>>
    /\ UNCHANGED <<mosaicVars, storeVars>>

\* xr.DataArray(data_new, dims=["x", "y"], coords={"y": ..., "x": ...})
BuildDataArray ==
    /\ ipc = "rotated"
    /\ da' = [dims |-> <<"x", "y">>,
              rows |-> da.rows,
              cols |-> da.cols,
              v |-> da.v,
              y |-> [r \in 1 .. decoded.rows |-> r],
              x |-> [c \in 1 .. decoded.cols |-> c]]
    /\ ipc' = "array"
    /\ UNCHANGED <<enabled, remote, gen, decoded, reference, repo, store_calls>>
    /\ UNCHANGED <<mosaicVars, storeVars>>

NextTransform ==
    \/ FlipUd
    \/ Rot90
    \/ BuildDataArray

SpecTransform == InitTransform /\ [][NextTransform]_vars

\* ----------------------------------- ingest/download.py, ray azimuths

\* The sectors <<start, end>> of a ray, clockwise from start to end.
Sectors == {<<s, (s + w) % 360>> : s \in AzStarts, w \in AzWidths}

\* The Level 3 files of one or two rays of one gate, a sector for each ray.
AzimuthFiles(site) ==
    UNION {{[ok |-> TRUE, siteID |-> site, product_name |-> "HHC", prod_time |-> 3,
             lat |-> SiteLat(site), lon |-> SiteLon(site), max_range |-> 2,
             rays |-> n, gates |-> 1, data |-> [ij \in Idx(n, 1) |-> 12],
             start_az |-> [a \in 1 .. n |-> sec[a][1]],
             end_az |-> [a \in 1 .. n |-> sec[a][2]]] : sec \in [1 .. n -> Sectors]} :
              n \in {1, 2}}

InitAzimuth ==
    /\ MosaicOff
    /\ StoreOff
    /\ enabled = <<"KOAX">>
    /\ remote \in {("KOAX" :> f) : f \in AzimuthFiles("KOAX")}
    /\ ipc = "start"
    /\ gen = 0
    /\ decoded = <<>>
    /\ da = <<>>
    /\ reference = <<ReferenceArea>>
    /\ repo = EmptyDict
    /\ store_calls = <<>>

\* _convert_l3_product_to_da, up to averaged_azimuths: decoded holds the
\* azimuths of the rays.
GetAzimuthMidpoints ==
    /\ ipc = "built"
    /\ gen <= Len(enabled)
    /\ LET l3f == remote[enabled[gen]]
       IN  decoded' = _get_azimuth_midpoints(l3f.start_az, l3f.end_az)
    /\ ipc' = "azimuths"
    /\ UNCHANGED <<enabled, remote, gen, da, reference, repo, store_calls>>
    /\ UNCHANGED <<mosaicVars, storeVars>>

NextAzimuth ==
    \/ PipelineSetup
    \/ PipelineBuild
    \/ GetAzimuthMidpoints

SpecAzimuth == InitAzimuth /\ [][NextAzimuth]_vars

\* ------------------------------------------------------------- claims

\* The datasets of the day being processed, by timestamp.
DayData == get_radar_data(dirs[day])

\* The largest value that is not NaN among vals, and NaN if there is none.
LargestOf(vals) ==
    IF vals \ {NaN} = {} THEN NaN ELSE SetMax(vals \ {NaN})

\* The values at cell c of the datasets of the day whose time is in [lo, hi).
ValuesIn(lo, hi, c) ==
    {DayData[t].grid[c] : t \in {u \in DOMAIN DayData : lo <= u /\ u < hi}}

\* The run of main() has ended, normally or by an exception.
Ended == pc \in {"done", "crashed"}

\* C1: slice_by_time partitions the layers of a span: once the day is sliced,
\* window i is [min + (i-1)*D, min + i*D) and every layer of the day is in
\* the list of exactly one window, the one that contains its time (the
\* layer at the maximum time too).
C1_SlicePartition ==
    (pc = "reduce") =>
        /\ \A i \in DOMAIN slices :
              /\ slices[i].start = SetMin(DOMAIN DayData) + (i - 1) * TimeDelta
              /\ slices[i].end = slices[i].start + TimeDelta
        /\ \A t \in DOMAIN DayData :
              /\ Cardinality({i \in DOMAIN slices :
                    \E j \in DOMAIN slices[i].data : slices[i].data[j] = DayData[t]}) = 1
              /\ \E i \in DOMAIN slices :
                    /\ slices[i].start <= t /\ t < slices[i].end
                    /\ \E j \in DOMAIN slices[i].data : slices[i].data[j] = DayData[t]

\* C5: the reduced grid of a bucket holds, in every cell, the largest value
\* any layer of the bucket has there: a value of one of its layers that no
\* layer of the bucket exceeds (NaN only where every layer is NaN).
C5_BucketMax ==
    \A i \in DOMAIN slices_reduced :
        i \in DOMAIN slices =>
            \A c \in Cells :
                LET r == slices_reduced[i].grid[c]
                    vals == {slices[i].data[j].grid[c] : j \in DOMAIN slices[i].data}
                IN  /\ r \in vals
                    /\ \A v \in vals \ {NaN} : r # NaN /\ v <= r

\* C5 witness: a bucket of two layers holding 1 and 3 in a cell was reduced
\* to 3 there.
C5_Witness ==
    \E i \in DOMAIN slices_reduced :
        /\ i \in DOMAIN slices
        /\ \E c \in Cells :
              /\ slices_reduced[i].grid[c] = 3
              /\ {slices[i].data[j].grid[c] : j \in DOMAIN slices[i].data} = {1, 3}

\* C6: the mosaic written for a day holds, in every cell, the sum over the
\* buckets of the day of the largest value the layers of the bucket have
\* there: layers of different buckets add, layers of one bucket do not.
C6_MosaicSum ==
    (pc \in {"write_tif", "done"} /\ day >= 1) =>
        /\ day \in DOMAIN nc_files
        /\ \A c \in Cells :
              nc_files[day][c] =
                  SeqSum([i \in DOMAIN slices_reduced |->
                      LET m == LargestOf(ValuesIn(slices_reduced[i].start,
                                                  slices_reduced[i].end, c))
                      IN  IF m = NaN THEN 0 ELSE m])

\* C6 witness: a day of two buckets was written, the first holding layers
\* with 1 and 3 in a cell and the second a layer with 1: the mosaic is 4.
C6_Witness ==
    /\ pc = "done"
    /\ Len(slices_reduced) = 2
    /\ \E c \in Cells :
          /\ ValuesIn(slices_reduced[1].start, slices_reduced[1].end, c) = {1, 3}
          /\ ValuesIn(slices_reduced[2].start, slices_reduced[2].end, c) = {1}
          /\ nc_files[day][c] = 4

\* The layers of the day all lie in the first window [min, min + D).
OneBucketDay ==
    \A t \in DOMAIN DayData : t < SetMin(DOMAIN DayData) + TimeDelta

\* C7: for a day whose layers all fall into one bucket (a day of a single
\* scene included), the run ends with a mosaic that equals the max-reduced
\* grid of that bucket in every cell, NaN where that grid is NaN.
C7_OneBucketMosaic ==
    (Ended /\ day >= 1 /\ OneBucketDay) =>
        /\ pc = "done"
        /\ day \in DOMAIN nc_files
        /\ \A c \in Cells :
              nc_files[day][c] =
                  LargestOf(ValuesIn(SetMin(DOMAIN DayData),
                                     SetMin(DOMAIN DayData) + TimeDelta, c))

\* Some window that ends at or before the last scene holds no layer.
HasEmptyWindow ==
    \E k \in 0 .. SetMax(Times) :
        LET lo == SetMin(DOMAIN DayData) + k * TimeDelta
        IN  /\ lo + TimeDelta <= SetMax(DOMAIN DayData)
            /\ ~ \E t \in DOMAIN DayData : lo <= t /\ t < lo + TimeDelta

\* C8: a window without a layer is valid: for a day with a gap of a full
\* window between two scenes the run still ends normally with the mosaic of
\* the day written.
C8_EmptyWindowCompletes ==
    (Ended /\ day >= 1 /\ HasEmptyWindow) =>
        /\ pc = "done"
        /\ day \in DOMAIN nc_files
        /\ day \in DOMAIN tif_files

\* C9: at every point of the reduction the raw layers main() still holds
\* belong to at most one bucket.
C9_OneBucketHeld ==
    (pc = "reduce") => Cardinality(HeldBuckets) <= 1

\* C2: get_hail_index maps every classification code c to 0 when c < 10 or
\* c > 12 (or c is no-data) and to c - 9 otherwise, so every cell of its
\* output is one of 0, 1, 2, 3 and none is no-data.
C2_HailIndex ==
    ipc = "hail" =>
        \A ij \in DOMAIN da.v :
            LET c == decoded.v[ij]
                h == da.v[ij]
            IN  /\ h \in {0, 1, 2, 3}
                /\ IF c = NaN \/ c < 10 \/ c > 12 THEN h = 0 ELSE h = c - 9

\* get_hail_index has run on a scene with a hail code, a code above the hail
\* range and a second scene cell.
C2_Witness ==
    /\ ipc = "hail"
    /\ \E ij \in DOMAIN da.v, kl \in DOMAIN da.v :
           /\ decoded.v[ij] = 11 /\ da.v[ij] = 2
           /\ decoded.v[kl] = 13 /\ da.v[kl] = 0

\* The stages of a site run through: the file can be read and griddata
\* accepts the points of the scene.
StagesSucceed(site) ==
    /\ remote[site].ok
    /\ CanResample(get_hail_index(_convert_l3_product_to_da(remote[site])))

\* The store calls made for a site.
StoreCallsOf(site) == {k \in DOMAIN store_calls : store_calls[k][1] = site}

\* C3: when an invocation of pipeline() in which the stages of every site run
\* through has completed, exactly one Repository.store call has happened for
\* every site of ENABLED_SITES.
C3_StoreOncePerSite ==
    (ipc = "done" /\ \A i \in DOMAIN enabled : StagesSucceed(enabled[i])) =>
        \A i \in DOMAIN enabled : Cardinality(StoreCallsOf(enabled[i])) = 1

\* C4: when an invocation of pipeline() in which a site fails has completed,
\* every enabled site whose own stages run through has been stored.
C4_FailureIsolated ==
    (ipc = "done" /\ \E i \in DOMAIN enabled : ~ StagesSucceed(enabled[i])) =>
        \A i \in DOMAIN enabled :
            StagesSucceed(enabled[i]) => StoreCallsOf(enabled[i]) # {}

\* The cell grid of a layer is that of the reference area: the same shape and
\* the same coordinates.
OnReferenceGrid(d) ==
    /\ d.x = reference[1].x
    /\ d.y = reference[1].y
    /\ d.dims = <<"y", "x">>
    /\ DOMAIN d.v = Idx(Len(reference[1].y), Len(reference[1].x))

EmptyColumns(d) ==
    {i \in DOMAIN d.x : \A j \in DOMAIN d.y : CellOf(d, i, j) = GridNaN}

EmptyRows(d) ==
    {j \in DOMAIN d.y : \A i \in DOMAIN d.x : CellOf(d, i, j) = GridNaN}

\* C11: the array minimize_data returns has no row and no column along an
\* edge of the grid that is no-data in every cell.
C11_EdgesTrimmed ==
    ipc = "minimized" =>
        /\ EmptyColumns(da) \cap {1, Len(da.x)} = {}
        /\ EmptyRows(da) \cap {1, Len(da.y)} = {}

\* The polar scene the generators are working on.
Scene == remote[enabled[gen]]

\* C12: for a polar scene of A azimuth rows and R range columns and the
\* upsample factor S, the grid resample_to_regular_grid returns has A*S
\* cells along the latitude axis y and R*S cells along the longitude axis x.
C12_ResampledShape ==
    ipc = "regular" =>
        /\ Len(da.y) = Scene.rays * ScaleFactor
        /\ Len(da.x) = Scene.gates * ScaleFactor
        /\ DOMAIN da.v = Idx(Len(da.y), Len(da.x))

\* A sequence of fractions increases strictly.
StrictlyIncreasing(coords) ==
    \A i \in DOMAIN coords, j \in DOMAIN coords : i < j => FLess(coords[i], coords[j])

\* C13: in the array resample_to_regular_grid returns, the cell [i, j] holds
\* the value interpolated at the latitude y[i] and the longitude x[j] (or
\* no-data), y increasing strictly in i and x increasing strictly in j.
C13_Orientation ==
    ipc = "regular" =>
        /\ StrictlyIncreasing(da.y)
        /\ StrictlyIncreasing(da.x)
        /\ \A i \in DOMAIN da.y, j \in DOMAIN da.x :
               /\ <<i, j>> \in DOMAIN da.v
               /\ da.v[<<i, j>>] \in {GridNaN, <<"at", da.y[i], da.x[j]>>}

\* The acquisition time of a layer, in hours since 2024-01-01T00:00Z.
HoursOf(d) == d.attrs.product_time.date * 24 + d.attrs.product_time.hour

\* C14: Repository.store files a layer under the date of its acquisition
\* time shifted by -5 hours: the UTC date for a time of day from 05:00 on, the
\* day before for an earlier one; the date directory exists when it returns.
C14_StoreDate ==
    \A k \in DOMAIN returned :
        LET t == HoursOf(returned[k].da)
            date_dir == returned[k].nc_file[2]
        IN  /\ date_dir = IF t % 24 >= 5 THEN t \div 24 ELSE (t \div 24) - 1
            /\ date_dir \in date_dirs
            /\ t = 27 => date_dir = 0

\* Two layers acquired on the second day, at 03:00 and at 06:00 UTC, have
\* been stored under different dates.
C14_Witness ==
    \E k \in DOMAIN returned, l \in DOMAIN returned :
        /\ HoursOf(returned[k].da) = 27
        /\ HoursOf(returned[l].da) = 30
        /\ returned[k].nc_file[2] = 0
        /\ returned[l].nc_file[2] = 1

\* The site, the product and the time of a layer.
KeyOf(d) == <<d.attrs.site_id, d.attrs.product_name, d.attrs.product_time>>

\* C15: two store calls with layers of the same site, product and time
\* return the same path, collection / date / name, whatever the repository
\* holds and whatever other call runs or ran.
C15_StoreDeterministic ==
    \A k \in DOMAIN returned, l \in DOMAIN returned :
        KeyOf(returned[k].da) = KeyOf(returned[l].da) =>
            /\ returned[k].nc_file = returned[l].nc_file
            /\ Len(returned[k].nc_file) = 3
            /\ returned[k].nc_file[1] = "hail_index"
            /\ returned[k].nc_file[3] = returned[k].da.name

\* Two calls with layers of one site, product and time and different data
\* have returned one path, in a repository that held a file before.
C15_Witness ==
    /\ Len(returned) = 2
    /\ KeyOf(returned[1].da) = KeyOf(returned[2].da)
    /\ returned[1].da.v # returned[2].da.v
    /\ returned[1].nc_file = returned[2].nc_file
    /\ Cardinality(DOMAIN repo) = 2

\* The last call to return among those that wrote to a file.
LastReturnedTo(file) ==
    SetMax({k \in DOMAIN returned : returned[k].nc_file = file})

\* C16: when concurrent store calls have all returned, every file they wrote
\* holds the layer of the call that finished writing it last: calls to different
\* names leave each file with its own layer, calls to one name leave the
\* layer of the last.
C16_LastWriteWins ==
    (\A p \in StoreProcs : calls[p].at = "returned") =>
        \A k \in DOMAIN returned :
            repo[returned[k].nc_file] = returned[LastReturnedTo(returned[k].nc_file)].da

\* C17: a cell that is no-data in every layer of the day is no-data in the
\* mosaic written for the day, not 0 or another number.
C17_NoDataStays ==
    (pc \in {"write_tif", "done"} /\ day >= 1) =>
        \A c \in Cells :
            (\A i \in DOMAIN dirs[day] : dirs[day][i].grid[c] = NaN) =>
                nc_files[day][c] = NaN

\* C19: get_radar_data returns one layer per file of the day directory: as
\* many layers as files, files of equal timestamps included.
C19_OneLayerPerFile ==
    (pc = "slice" /\ day >= 1) =>
        /\ Cardinality(DOMAIN scans) = Len(dirs[day])
        /\ \A i \in DOMAIN dirs[day] : \E t \in DOMAIN scans : scans[t] = dirs[day][i]

\* The output files of a day: its output directories, its mosaic.nc and its
\* mosaic.tif, <<>> for a file that does not exist.
OutputsOf(e) ==
    <<e \in out_dirs,
      IF e \in DOMAIN nc_files THEN <<nc_files[e]>> ELSE <<>>,
      IF e \in DOMAIN tif_files THEN <<tif_files[e]>> ELSE <<>>>>

\* The mosaic one uninterrupted run builds from the scenes of a day.
DayMosaic(dir) ==
    LET buckets == slice_by_time(get_radar_data(dir), TimeDelta)
    IN  SumZ([i \in DOMAIN buckets |-> [grid |-> MaxZ(buckets[i].data)]])

\* A step leaves the outputs of every day other than the one being worked
\* on as they were, and a mosaic file that exists after the step holds the
\* mosaic of one uninterrupted run over the scenes of its day.
DayJobStep ==
    \A e \in DOMAIN dirs :
        /\ e # day => OutputsOf(e)' = OutputsOf(e)
        /\ e \in DOMAIN nc_files' => nc_files'[e] = DayMosaic(dirs[e])
        /\ e \in DOMAIN tif_files' => tif_files'[e] = DayMosaic(dirs[e])

\* C18: per-day mosaic jobs are independent: every step of the job of a day,
\* its failure and its abandonment included, changes only that day's output
\* files, and whatever was run, abandoned and run again before, the mosaic
\* files of a day hold what one uninterrupted run builds from its scenes.
C18_DaysIndependent == [][DayJobStep]_vars

\* The job of the second day was abandoned in a later run, before it wrote
\* its mosaic.tif again, with both days' mosaics written by an earlier run
\* and different from each other.
C18_Witness ==
    /\ pc = "abandoned"
    /\ day = 2
    /\ DOMAIN nc_files = {1, 2}
    /\ DOMAIN tif_files = {1, 2}
    /\ nc_files[1] # nc_files[2]
    /\ tif_files[1] = nc_files[1]

\* C20: main() ends normally, with mosaic.nc and mosaic.tif written for every
\* day directory (none is empty): a day of a single scene, a day of scenes
\* of one timestamp, and the days after such a day.
C20_AllDaysWritten ==
    Ended =>
        /\ pc = "done"
        /\ \A e \in DOMAIN dirs : e \in DOMAIN nc_files /\ e \in DOMAIN tif_files

\* C21: flipping the interpolated array G vertically and turning it by
\* rot90 with k = 3 transposes it: the array V of dims (x, y) has the shape
\* of G turned over and V[c, r] = G[r, c], so the cell labelled with the
\* longitude x[c] and the latitude y[r] holds the value interpolated there.
C21_Transposition ==
    ipc = "array" =>
        /\ da.rows = decoded.cols
        /\ da.cols = decoded.rows
        /\ DOMAIN da.v = Idx(decoded.cols, decoded.rows)
        /\ \A r \in 1 .. decoded.rows, c \in 1 .. decoded.cols :
               /\ da.v[<<c, r>>] = decoded.v[<<r, c>>]
               /\ da.x[c] = c /\ da.y[r] = r
               /\ CellOf(da, c, r) = decoded.v[<<r, c>>]

\* An array of two rows and three columns that is not symmetric was
\* transformed.
C21_Witness ==
    /\ ipc = "array"
    /\ decoded.rows = 2
    /\ decoded.cols = 3
    /\ decoded.v[<<1, 3>>] = 1
    /\ decoded.v[<<2, 1>>] = 0
    /\ da.v[<<3, 1>>] = 1
    /\ da.v[<<1, 2>>] = 0

\* An azimuth, a fraction of degrees, lies on the clockwise arc from start
\* to end_ (whole degrees); all in half degrees.
InSector(az, start, end_) ==
    LET az2 == az[1] * (2 \div az[2])
    IN  ((az2 - 2 * start) % 720) <= ((2 * end_ - 2 * start) % 720)

\* C22: the azimuth _get_azimuth_midpoints computes for a ray lies in the
\* sector of the ray, on the clockwise arc from its start azimuth to its end
\* azimuth, also for a sector that crosses due north.
C22_MidpointInSector ==
    ipc = "azimuths" =>
        \A i \in DOMAIN decoded :
            InSector(decoded[i], Scene.start_az[i], Scene.end_az[i])

====
